---- MODULE Spec2Model ----
(***************************************************************************)
(* Model of the hashring crate: HashRing (src/src/lib.rs), NodeRef, Iter   *)
(* KeyRange (src/src/range.rs) and the range merge engine                  *)
(* (src/src/range/merge.rs).                                               *)
(*                                                                         *)
(* A ring is the pair (hash_builder, data).  hash_builder is the pluggable *)
(* RingHasher: any function from node data to keys, collisions included.   *)
(* data is the Vec<Node<K, T>>; indices are 0-based as in the source, so   *)
(* the entry at index i is data[i + 1].                                    *)
(***************************************************************************)
EXTENDS Integers, Sequences, FiniteSets, TLC

\* Bounds of the model.
NumNodes == 3
MaxKey == 2
MaxIndex == 3
MaxRanges == 3

NodeData == 1..NumNodes
Keys == 0..MaxKey
Indices == 0..MaxIndex

\* Option::None, and the index / argument slot of a result that carries none.
None == -1

NoRange == [start |-> None, end |-> None]

VARIABLES
    hash_builder,   \* HashRing::hash_builder, as the function get_key computes
    data,           \* HashRing::data
    prev,           \* history: data as it was before the last call
    res,            \* history: the last call, its argument and what it returned
    it,             \* the live Iter (borrowing the ring), if any
    ring2,          \* data of a second ring, filled by add_node_unchecked
    todo,           \* the nodes still to be added to each of the two rings
    kr,             \* a KeyRange, the self of the KeyRange methods
    other,          \* a KeyRange, the argument of the KeyRange methods
    krcall,         \* history: the last KeyRange call and what it returned
    ranges,         \* the collection handed to merge_ranges
    merged          \* the MergedRanges iterator and what it has yielded

ringVars == <<hash_builder, data, prev, res, it>>
roundTripVars == <<ring2, todo>>
rangeVars == <<kr, other, krcall>>
mergeVars == <<ranges, merged>>

vars == <<hash_builder, data, prev, res, it, ring2, todo, kr, other, krcall,
          ranges, merged>>

----------------------------------------------------------------------------
(* KeyRange (src/src/range.rs) *)

KeyRange(start, end) == [start |-> start, end |-> end]

is_wrapping_strict(r) == r.start > r.end

is_wrapping(r) == ~(r.start < r.end)

\* range_from() is start.. and range_to() is ..end
range_from_contains(r, item) == item >= r.start

range_to_contains_incl(r, item) == item <= r.end

range_to_contains(r, item) == item < r.end

contains(r, item) ==
    IF is_wrapping(r)
    THEN range_from_contains(r, item) \/ range_to_contains(r, item)
    ELSE range_from_contains(r, item) /\ range_to_contains(r, item)

is_overlapping_oneway(r, o) == contains(r, o.start)

is_overlapping(r, o) == contains(r, o.start) \/ contains(o, r.start)

\* The &mut self methods give the range as it is after the call.
extend_start(r, o) ==
    IF o.start < r.start
    THEN IF is_wrapping(r) /\ o.start < r.end
         THEN [r EXCEPT !.start = r.end]
         ELSE [r EXCEPT !.start = o.start]
    ELSE r

extend_end_naive(r, o) ==
    IF o.end > r.end THEN [r EXCEPT !.end = o.end] ELSE r

extend_end(r, o) ==
    IF o.end > r.end
    THEN IF is_wrapping(r) /\ o.end > r.start
         THEN [r EXCEPT !.end = r.start]
         ELSE [r EXCEPT !.end = o.end]
    ELSE r

extend(r, o) == extend_end(extend_start(r, o), o)

----------------------------------------------------------------------------
(* MergedRanges (src/src/range/merge.rs); last = NoRange is Option::None *)

\* Vec::sort_by on start: a stable sort, equal starts keep their order.
RECURSIVE sort_by_start(_)
sort_by_start(rs) ==
    IF Len(rs) <= 1
    THEN rs
    ELSE LET front == sort_by_start(SubSeq(rs, 1, Len(rs) - 1))
             e == rs[Len(rs)]
             pos == Cardinality({i \in 1..Len(front) : front[i].start <= e.start})
         IN  SubSeq(front, 1, pos) \o <<e>> \o SubSeq(front, pos + 1, Len(front))

merge_ranges_sorted(rs) ==
    IF rs = <<>>
    THEN [values |-> <<>>, last |-> NoRange]
    ELSE [values |-> Tail(rs), last |-> Head(rs)]

merge_ranges(rs) == merge_ranges_sorted(sort_by_start(rs))

\* The for loop of MergedRanges::next over the remaining values: the item
\* returned, and values and last as the call leaves them.
RECURSIVE merge_loop_assign(_, _)
merge_loop_assign(last, values) ==
    IF values = <<>>
    THEN [item |-> last, values |-> <<>>, last |-> NoRange]
    ELSE LET next == Head(values)
             rest == Tail(values)
         IN  IF is_wrapping(last)
             THEN merge_loop_assign(IF is_wrapping(next)
                                    THEN extend_end(last, next)
                                    ELSE last, rest)
             ELSE IF is_wrapping(next)
                  THEN IF last.end >= next.start
                       THEN merge_loop_assign(extend_start(next, last), rest)
                       ELSE [item |-> last, values |-> rest, last |-> next]
                  ELSE IF last.end >= next.start
                       THEN merge_loop_assign([last EXCEPT !.end = next.end],
                                              rest)
                       ELSE [item |-> last, values |-> rest, last |-> next]

RECURSIVE merge_loop(_, _)
merge_loop(last, values) ==
    IF values = <<>>
    THEN [item |-> last, values |-> <<>>, last |-> NoRange]
    ELSE LET next == Head(values)
             rest == Tail(values)
         IN  IF is_wrapping(last)
             THEN merge_loop(IF is_wrapping(next)
                             THEN extend_end(last, next)
                             ELSE last, rest)
             ELSE IF is_wrapping(next)
                  THEN IF last.end >= next.start
                       THEN merge_loop(extend_start(next, last), rest)
                       ELSE [item |-> last, values |-> rest, last |-> next]
                  ELSE IF last.end >= next.start
                       THEN merge_loop(extend_end(last, next), rest)
                       ELSE [item |-> last, values |-> rest, last |-> next]

MergedRanges_next(m) ==
    IF m.last # NoRange
    THEN merge_loop(m.last, m.values)
    ELSE [item |-> NoRange, values |-> m.values, last |-> NoRange]

----------------------------------------------------------------------------
(* HashRing (src/src/lib.rs) *)

Node(k, d) == [key |-> k, data |-> d]

key(h, input) == h[input]

len(d) == Len(d)

is_empty(d) == Len(d) = 0

\* The loop of slice::binary_search_by over d[base .. base + size), comparing
\* node.key with k: Ok(index) on a hit, Err(insertion point) otherwise.
RECURSIVE binary_search_by(_, _, _, _)
binary_search_by(d, k, base, size) ==
    IF size > 1
    THEN LET half == size \div 2
             mid == base + half
         IN  binary_search_by(d, k, IF d[mid + 1].key > k THEN base ELSE mid,
                              size - half)
    ELSE IF d[base + 1].key = k
         THEN [ok |-> TRUE, index |-> base]
         ELSE [ok |-> FALSE,
               index |-> base + (IF d[base + 1].key < k THEN 1 ELSE 0)]

find_node(d, k) ==
    IF Len(d) = 0
    THEN [ok |-> FALSE, index |-> 0]
    ELSE binary_search_by(d, k, 0, Len(d))

\* Vec::insert(index, e) and Vec::remove(index)
vec_insert(d, index, e) ==
    SubSeq(d, 1, index) \o <<e>> \o SubSeq(d, index + 1, Len(d))

vec_remove(d, index) ==
    SubSeq(d, 1, index) \o SubSeq(d, index + 2, Len(d))

add_node_push(h, d, node) ==
    LET k == key(h, node)
        f == find_node(d, k)
    IN  IF f.ok
        THEN [data |-> d, err |-> "DuplicateNode", index |-> None]
        ELSE [data |-> Append(d, Node(k, node)), err |-> "", index |-> f.index]

add_node_replace(h, d, node) ==
    LET k == key(h, node)
        f == find_node(d, k)
    IN  IF f.ok
        THEN [data |-> vec_insert(d, f.index, Node(k, node)),
              err |-> "DuplicateNode", index |-> None]
        ELSE [data |-> vec_insert(d, f.index, Node(k, node)),
              err |-> "", index |-> f.index]

add_node_len(h, d, node) ==
    LET k == key(h, node)
        f == find_node(d, k)
    IN  IF f.ok
        THEN [data |-> d, err |-> "DuplicateNode", index |-> None]
        ELSE [data |-> vec_insert(d, f.index, Node(k, node)),
              err |-> "", index |-> Len(d)]

add_node(h, d, node) ==
    LET k == key(h, node)
        f == find_node(d, k)
    IN  IF f.ok
        THEN [data |-> d, err |-> "DuplicateNode", index |-> None]
        ELSE [data |-> vec_insert(d, f.index, Node(k, node)),
              err |-> "", index |-> f.index]

add_node_unchecked(h, d, node) == Append(d, Node(key(h, node), node))

\* Vec::sort_by on key: a stable sort, equal keys keep their order.
RECURSIVE sort_desc(_)
sort_desc(d) ==
    IF Len(d) <= 1
    THEN d
    ELSE LET front == sort_desc(SubSeq(d, 1, Len(d) - 1))
             e == d[Len(d)]
             pos == Cardinality({i \in 1..Len(front) : front[i].key >= e.key})
         IN  vec_insert(front, pos, e)

RECURSIVE sort(_)
sort(d) ==
    IF Len(d) <= 1
    THEN d
    ELSE LET front == sort(SubSeq(d, 1, Len(d) - 1))
             e == d[Len(d)]
             pos == Cardinality({i \in 1..Len(front) : front[i].key <= e.key})
         IN  vec_insert(front, pos, e)

remove_node_first(h, d, node) ==
    LET f == find_node(d, key(h, node))
    IN  IF f.ok
        THEN [data |-> vec_remove(d, 0), err |-> "", index |-> None]
        ELSE [data |-> d, err |-> "NodeNotFound", index |-> None]

remove_node(h, d, node) ==
    LET f == find_node(d, key(h, node))
    IN  IF f.ok
        THEN [data |-> vec_remove(d, f.index), err |-> "", index |-> None]
        ELSE [data |-> d, err |-> "NodeNotFound", index |-> None]

get_by_index_le(d, index) ==
    IF index <= len(d)
    THEN [err |-> "", index |-> index]
    ELSE [err |-> "NodeNotFound", index |-> None]

get_by_index(d, index) ==
    IF index < len(d)
    THEN [err |-> "", index |-> index]
    ELSE [err |-> "NodeNotFound", index |-> None]

get_by_key_nowrap(d, k) ==
    IF is_empty(d)
    THEN [err |-> "NodeNotFound", index |-> None]
    ELSE LET index == find_node(d, k).index
         IN  get_by_index(d, IF index = Len(d) THEN Len(d) - 1 ELSE index)

get_by_key(d, k) ==
    IF is_empty(d)
    THEN [err |-> "NodeNotFound", index |-> None]
    ELSE LET index == find_node(d, k).index
         IN  get_by_index(d, IF index = Len(d) THEN 0 ELSE index)

get_by_hash(h, d, subject) == get_by_key(d, key(h, subject))

node(h, d, n) ==
    IF is_empty(d)
    THEN [err |-> "NodeNotFound", index |-> None]
    ELSE LET f == find_node(d, key(h, n))
         IN  IF f.ok
             THEN get_by_index(d, f.index)
             ELSE [err |-> "NodeNotFound", index |-> None]

wrap_index(d, index) == index % Len(d)

----------------------------------------------------------------------------
(* NodeRef: the ring is d, the reference is its index *)

NodeRef_key(d, index) == d[index + 1].key

NodeRef_data(d, index) == d[index + 1].data

NodeRef_prev(d, index) == wrap_index(d, len(d) + index - 1)

NodeRef_next_skip(d, index) == wrap_index(d, index + 2)

NodeRef_next(d, index) == wrap_index(d, index + 1)

NodeRef_range(d, index) ==
    KeyRange(NodeRef_key(d, index), NodeRef_key(d, NodeRef_next(d, index)))

----------------------------------------------------------------------------
(* Iter *)

Iter_new(index) == [start |-> index, next |-> index]

Iter_empty == [start |-> 0, next |-> None]

iter(d, start) ==
    LET start_node == IF start # None
                      THEN get_by_key(d, start)
                      ELSE get_by_index(d, 0)
    IN  IF start_node.err = "" THEN Iter_new(start_node.index) ELSE Iter_empty

\* Iterator::next: the item returned and the fields of the Iter afterwards.
Iter_next_zero(d, i) ==
    LET current == i.next
    IN  IF current # None
        THEN LET next == NodeRef_next(d, current)
             IN  [item |-> current, start |-> i.start,
                  next |-> IF next # 0 THEN next ELSE None]
        ELSE [item |-> None, start |-> i.start, next |-> None]

Iter_next(d, i) ==
    LET current == i.next
    IN  IF current # None
        THEN LET next == NodeRef_next(d, current)
             IN  [item |-> current, start |-> i.start,
                  next |-> IF next # i.start THEN next ELSE None]
        ELSE [item |-> None, start |-> i.start, next |-> None]

----------------------------------------------------------------------------
(* The state machine: one action per public call. *)

NoIter ==
    [alive |-> FALSE, arg |-> None, start |-> 0, next |-> None,
     out |-> <<>>, ended |-> FALSE]

Call(op, arg, err, index, range) ==
    [op |-> op, arg |-> arg, err |-> err, index |-> index, range |-> range]

\* Values of the variables a specification does not use.
NoTodo == [nodes |-> <<>>, checked |-> <<>>, unchecked |-> <<>>, sorted |-> FALSE]

NoKrCall == [op |-> "new", item |-> None, ret |-> FALSE, before |-> NoRange]

NoMerged ==
    [started |-> FALSE, values |-> <<>>, last |-> NoRange, out |-> <<>>,
     ended |-> FALSE]

RoundTripIdle == ring2 = <<>> /\ todo = NoTodo

RangeIdle == kr = NoRange /\ other = NoRange /\ krcall = NoKrCall

MergeIdle == ranges = <<>> /\ merged = NoMerged

Init ==
    /\ hash_builder \in [NodeData -> Keys]
    /\ data = <<>>
    /\ prev = <<>>
    /\ res = Call("new", None, "", None, NoRange)
    /\ it = NoIter
    /\ RoundTripIdle
    /\ RangeIdle
    /\ MergeIdle

\* &mut self calls need the ring not to be borrowed by a live Iter.
AddNode(n) ==
    /\ ~it.alive
    /\ LET r == add_node(hash_builder, data, n)
       IN  /\ data' = r.data
           /\ res' = Call("add_node", n, r.err, r.index, NoRange)
    /\ prev' = data
    /\ UNCHANGED <<hash_builder, it, roundTripVars, rangeVars, mergeVars>>

RemoveNode(n) ==
    /\ ~it.alive
    /\ LET r == remove_node(hash_builder, data, n)
       IN  /\ data' = r.data
           /\ res' = Call("remove_node", n, r.err, r.index, NoRange)
    /\ prev' = data
    /\ UNCHANGED <<hash_builder, it, roundTripVars, rangeVars, mergeVars>>

Query(op, arg, r) ==
    /\ res' = Call(op, arg, r.err, r.index, NoRange)
    /\ prev' = data
    /\ UNCHANGED <<hash_builder, data, it, roundTripVars, rangeVars, mergeVars>>

GetByKey(k) == Query("get_by_key", k, get_by_key(data, k))

GetByHash(s) == Query("get_by_hash", s, get_by_hash(hash_builder, data, s))

GetByIndex(i) == Query("get_by_index", i, get_by_index(data, i))

NodeLookup(n) == Query("node", n, node(hash_builder, data, n))

\* range() of the NodeRef that get_by_index(i) returns
NodeRange(i) ==
    /\ get_by_index(data, i).err = ""
    /\ res' = Call("range", i, "", i, NodeRef_range(data, i))
    /\ prev' = data
    /\ UNCHANGED <<hash_builder, data, it, roundTripVars, rangeVars, mergeVars>>

\* prev() and next() of the NodeRef that get_by_index(i) returns
NodePrev(i) ==
    /\ get_by_index(data, i).err = ""
    /\ res' = Call("prev", i, "", NodeRef_prev(data, i), NoRange)
    /\ prev' = data
    /\ UNCHANGED <<hash_builder, data, it, roundTripVars, rangeVars, mergeVars>>

NodeNext(i) ==
    /\ get_by_index(data, i).err = ""
    /\ res' = Call("next_node", i, "", NodeRef_next(data, i), NoRange)
    /\ prev' = data
    /\ UNCHANGED <<hash_builder, data, it, roundTripVars, rangeVars, mergeVars>>

IterStart(start) ==
    /\ ~it.alive
    /\ LET i == iter(data, start)
       IN  it' = [alive |-> TRUE, arg |-> start, start |-> i.start,
                  next |-> i.next, out |-> <<>>, ended |-> FALSE]
    /\ res' = Call("iter", start, "", None, NoRange)
    /\ prev' = data
    /\ UNCHANGED <<hash_builder, data, roundTripVars, rangeVars, mergeVars>>

IterNext ==
    /\ it.alive
    /\ LET r == Iter_next(data, it)
       IN  /\ it' = [it EXCEPT !.start = r.start, !.next = r.next,
                               !.out = IF r.item # None
                                       THEN Append(@, r.item) ELSE @,
                               !.ended = (r.item = None)]
           /\ res' = Call("next", None, "", r.item, NoRange)
    /\ prev' = data
    /\ UNCHANGED <<hash_builder, data, roundTripVars, rangeVars, mergeVars>>

IterDrop ==
    /\ it.alive
    /\ it' = NoIter
    /\ res' = Call("drop", None, "", None, NoRange)
    /\ prev' = data
    /\ UNCHANGED <<hash_builder, data, roundTripVars, rangeVars, mergeVars>>

Next ==
    \/ \E n \in NodeData : AddNode(n)
    \/ \E n \in NodeData : RemoveNode(n)
    \/ \E k \in Keys : GetByKey(k)
    \/ \E s \in NodeData : GetByHash(s)
    \/ \E i \in Indices : GetByIndex(i)
    \/ \E n \in NodeData : NodeLookup(n)
    \/ \E i \in Indices : NodeRange(i)
    \/ \E i \in Indices : NodePrev(i)
    \/ \E i \in Indices : NodeNext(i)
    \/ \E start \in Keys \cup {None} : IterStart(start)
    \/ IterNext
    \/ IterDrop

Spec == Init /\ [][Next]_vars

----------------------------------------------------------------------------
(* Bulk loading: the same nodes, in the same order, go into one ring by    *)
(* add_node and into a second ring by add_node_unchecked, which is then    *)
(* sorted once.                                                            *)

\* sequences of distinct nodes
NodeOrders ==
    {o \in UNION {[1..n -> NodeData] : n \in 0..NumNodes} :
        \A i, j \in 1..Len(o) : o[i] = o[j] => i = j}

InitRoundTrip ==
    /\ hash_builder \in [NodeData -> Keys]
    /\ data = <<>>
    /\ prev = <<>>
    /\ res = Call("new", None, "", None, NoRange)
    /\ it = NoIter
    /\ ring2 = <<>>
    /\ \E o \in NodeOrders :
          todo = [nodes |-> o, checked |-> o, unchecked |-> o, sorted |-> FALSE]
    /\ RangeIdle
    /\ MergeIdle

BulkAddNode ==
    /\ todo.checked # <<>>
    /\ LET n == Head(todo.checked)
           r == add_node(hash_builder, data, n)
       IN  /\ data' = r.data
           /\ res' = Call("add_node", n, r.err, r.index, NoRange)
    /\ prev' = data
    /\ todo' = [todo EXCEPT !.checked = Tail(@)]
    /\ UNCHANGED <<hash_builder, it, ring2, rangeVars, mergeVars>>

BulkAddNodeUnchecked ==
    /\ todo.unchecked # <<>>
    /\ ring2' = add_node_unchecked(hash_builder, ring2, Head(todo.unchecked))
    /\ todo' = [todo EXCEPT !.unchecked = Tail(@)]
    /\ UNCHANGED <<ringVars, rangeVars, mergeVars>>

BulkSort ==
    /\ todo.unchecked = <<>>
    /\ ~todo.sorted
    /\ ring2' = sort(ring2)
    /\ todo' = [todo EXCEPT !.sorted = TRUE]
    /\ UNCHANGED <<ringVars, rangeVars, mergeVars>>

NextRoundTrip ==
    \/ BulkAddNode
    \/ BulkAddNodeUnchecked
    \/ BulkSort

SpecRoundTrip == InitRoundTrip /\ [][NextRoundTrip]_vars

----------------------------------------------------------------------------
(* KeyRange calls on a pair of ranges *)

AllRanges == {KeyRange(s, e) : s \in Keys, e \in Keys}

RingIdle ==
    /\ hash_builder = [n \in NodeData |-> 0]
    /\ data = <<>>
    /\ prev = <<>>
    /\ res = Call("new", None, "", None, NoRange)
    /\ it = NoIter

InitRange ==
    /\ kr \in AllRanges
    /\ other \in AllRanges
    /\ krcall = NoKrCall
    /\ RingIdle
    /\ RoundTripIdle
    /\ MergeIdle

KrCall(op, item, ret) == [op |-> op, item |-> item, ret |-> ret, before |-> kr]

Contains(item) ==
    /\ krcall' = KrCall("contains", item, contains(kr, item))
    /\ UNCHANGED <<kr, other, ringVars, roundTripVars, mergeVars>>

IsWrapping ==
    /\ krcall' = KrCall("is_wrapping", None, is_wrapping(kr))
    /\ UNCHANGED <<kr, other, ringVars, roundTripVars, mergeVars>>

IsOverlapping ==
    /\ krcall' = KrCall("is_overlapping", None, is_overlapping(kr, other))
    /\ UNCHANGED <<kr, other, ringVars, roundTripVars, mergeVars>>

Extend ==
    /\ kr' = extend(kr, other)
    /\ krcall' = KrCall("extend", None, FALSE)
    /\ UNCHANGED <<other, ringVars, roundTripVars, mergeVars>>

ExtendStart ==
    /\ kr' = extend_start(kr, other)
    /\ krcall' = KrCall("extend_start", None, FALSE)
    /\ UNCHANGED <<other, ringVars, roundTripVars, mergeVars>>

ExtendEnd ==
    /\ kr' = extend_end(kr, other)
    /\ krcall' = KrCall("extend_end", None, FALSE)
    /\ UNCHANGED <<other, ringVars, roundTripVars, mergeVars>>

NextRange ==
    \/ \E item \in Keys : Contains(item)
    \/ IsWrapping
    \/ IsOverlapping
    \/ Extend
    \/ ExtendStart
    \/ ExtendEnd

SpecRange == InitRange /\ [][NextRange]_vars

----------------------------------------------------------------------------
(* merge_ranges on a collection of ranges, and the iterator it returns *)

RangeVecs == UNION {[1..n -> AllRanges] : n \in 0..MaxRanges}

InitMerge ==
    /\ ranges \in RangeVecs
    /\ merged = NoMerged
    /\ RingIdle
    /\ RoundTripIdle
    /\ RangeIdle

MergeRanges ==
    /\ ~merged.started
    /\ LET m == merge_ranges(ranges)
       IN  merged' = [started |-> TRUE, values |-> m.values, last |-> m.last,
                      out |-> <<>>, ended |-> FALSE]
    /\ UNCHANGED <<ranges, ringVars, roundTripVars, rangeVars>>

MergedNext ==
    /\ merged.started
    /\ LET r == MergedRanges_next(merged)
       IN  merged' = [merged EXCEPT !.values = r.values, !.last = r.last,
                                    !.out = IF r.item # NoRange
                                            THEN Append(@, r.item) ELSE @,
                                    !.ended = (r.item = NoRange)]
    /\ UNCHANGED <<ranges, ringVars, roundTripVars, rangeVars>>

NextMerge ==
    \/ MergeRanges
    \/ MergedNext

SpecMerge == InitMerge /\ [][NextMerge]_vars

----------------------------------------------------------------------------
(* Vocabulary of the properties *)

Entries(d) == {d[i] : i \in 1..Len(d)}

HasKey(d, k) == \E i \in 1..Len(d) : d[i].key = k

HasData(d, n) == \E i \in 1..Len(d) : d[i].data = n

StrictlyAscending(d) == \A i \in 1..(Len(d) - 1) : d[i].key < d[i + 1].key

\* d with its i-th element (1-based) taken out
Without(d, i) == [j \in 1..(Len(d) - 1) |-> IF j < i THEN d[j] ELSE d[j + 1]]

NoNode == Node(None, None)

\* the entry get_by_key(k) refers to, NoNode when it fails
Owner(d, k) ==
    LET r == get_by_key(d, k)
    IN  IF r.err = "" THEN d[r.index + 1] ELSE NoNode

Lookups == {"get_by_key", "get_by_hash", "get_by_index", "node"}

----------------------------------------------------------------------------
\* C1: a successful add_node(n) moves a key only to n, and a successful
\* remove_node(n) moves a key only away from n: whenever the owner of a key k
\* differs before and after the call, the new owner (add) or the old owner
\* (remove) is n.
C1_MinimalRemapping ==
    /\ (res.op = "add_node" /\ res.err = "") =>
          \A k \in Keys :
              Owner(prev, k) # Owner(data, k) => Owner(data, k).data = res.arg
    /\ (res.op = "remove_node" /\ res.err = "") =>
          \A k \in Keys :
              Owner(prev, k) # Owner(data, k) => Owner(prev, k).data = res.arg

\* C2: on a non-empty ring get_by_key(k) succeeds and returns the entry with
\* the smallest key >= k, or index 0 (the smallest key of all) when k is
\* greater than every node key.
C2_ClockwiseSuccessor ==
    (res.op = "get_by_key" /\ data # <<>>) =>
        /\ res.err = ""
        /\ res.index \in 0..(Len(data) - 1)
        /\ LET AtOrAfter == {e \in Entries(data) : e.key >= res.arg}
               got == data[res.index + 1]
           IN  IF AtOrAfter # {}
               THEN got \in AtOrAfter /\ \A e \in AtOrAfter : got.key <= e.key
               ELSE res.index = 0 /\ \A e \in Entries(data) : got.key <= e.key

C2_Witness ==
    /\ res.op = "get_by_key"
    /\ Len(data) >= 2
    /\ res.arg > data[Len(data)].key
    /\ res.index = 0

\* C3: the node that get_by_key(k) returns has k in its range().
C3_OwnerRangeContainsKey ==
    (res.op = "get_by_key" /\ res.err = "") =>
        contains(NodeRef_range(data, res.index), res.arg)

\* C4: after any sequence of add_node and remove_node calls the entries are
\* sorted strictly ascending by key (so no two entries share a key).
C4_SortedUnique ==
    /\ StrictlyAscending(data)
    /\ \A i, j \in 1..Len(data) : data[i].key = data[j].key => i = j

C4_Witness ==
    /\ res.op = "add_node"
    /\ res.err = ""
    /\ Len(data) = 3
    /\ res.index = 0

\* C5: add_node(node) returns DuplicateNode exactly when an entry with
\* key(node) is already in the ring, and then the ring is unchanged.
C5_DuplicateNode ==
    res.op = "add_node" =>
        /\ (res.err = "DuplicateNode") <=> HasKey(prev, key(hash_builder, res.arg))
        /\ res.err \in {"", "DuplicateNode"}
        /\ res.err = "DuplicateNode" => data = prev

C5_Witness ==
    /\ res.op = "add_node"
    /\ res.err = "DuplicateNode"
    /\ Len(data) >= 2

\* C6: remove_node(node) returns NodeNotFound and changes nothing when no
\* entry has key(node); otherwise it removes exactly the entry with key(node),
\* the others keeping their data, keys and relative order.
C6_RemoveNode ==
    res.op = "remove_node" =>
        LET k == key(hash_builder, res.arg)
        IN  IF HasKey(prev, k)
            THEN /\ res.err = ""
                 /\ Len(data) = Len(prev) - 1
                 /\ \E i \in 1..Len(prev) :
                        prev[i].key = k /\ data = Without(prev, i)
            ELSE res.err = "NodeNotFound" /\ data = prev

C6_Witness ==
    /\ res.op = "remove_node"
    /\ res.err = ""
    /\ Len(prev) = 3
    /\ prev[2].key = key(hash_builder, res.arg)

\* C7: remove_node(n) removes only an entry whose data equals n and node(n)
\* returns only a NodeRef whose data() equals n; when no entry's data equals
\* n both return NodeNotFound.
C7_IdentifiedByData ==
    /\ res.op = "remove_node" =>
          IF HasData(prev, res.arg)
          THEN /\ res.err = ""
               /\ \E i \in 1..Len(prev) :
                      prev[i].data = res.arg /\ data = Without(prev, i)
          ELSE res.err = "NodeNotFound" /\ data = prev
    /\ res.op = "node" =>
          IF HasData(data, res.arg)
          THEN res.err = "" /\ NodeRef_data(data, res.index) = res.arg
          ELSE res.err = "NodeNotFound"

\* C8: iter(start) over a ring of n nodes yields exactly n NodeRefs and then
\* None: the first is index 0 (start = None) or get_by_key(start), each
\* following one is the circular successor of the one before, and no node is
\* yielded twice.
C8_IterOneLap ==
    it.alive =>
        LET n == Len(data)
            first == IF it.arg = None THEN 0 ELSE get_by_key(data, it.arg).index
        IN  /\ Len(it.out) <= n
            /\ \A j \in 1..Len(it.out) : it.out[j] = (first + j - 1) % n
            /\ \A i, j \in 1..Len(it.out) : it.out[i] = it.out[j] => i = j
            /\ (it.next = None) <=> (Len(it.out) = n)
            /\ it.ended =>
                  Len(it.out) = n /\ {it.out[j] : j \in 1..n} = 0..(n - 1)

C8_Witness ==
    /\ it.alive
    /\ it.ended
    /\ it.arg # None
    /\ it.out = <<1, 2, 0>>

\* C9: on an empty ring get_by_key, get_by_hash, get_by_index, node and
\* remove_node all return NodeNotFound, and iter(start) yields nothing.
C9_EmptyRing ==
    /\ (prev = <<>> /\ res.op \in Lookups \cup {"remove_node"}) =>
          res.err = "NodeNotFound" /\ res.index = None /\ data = <<>>
    /\ (data = <<>> /\ it.alive) => it.next = None /\ it.out = <<>>

C9_Witness ==
    /\ data = <<>>
    /\ it.alive
    /\ it.ended
    /\ it.arg # None
    /\ res.op = "get_by_index"
    /\ res.err = "NodeNotFound"

\* C10: every NodeRef's range() starts at its own key and ends at the key of
\* the next node: for A and the next higher key B, A.range().end =
\* B.range().start = B.key(), and the range of the largest key ends at the
\* smallest key.
C10_RingAdjacency ==
    /\ \A i \in 0..(Len(data) - 1) :
          LET A == data[i + 1]
              r == NodeRef_range(data, i)
              Higher == {e \in Entries(data) : e.key > A.key}
          IN  /\ r.start = A.key
              /\ r.end = NodeRef_key(data, NodeRef_next(data, i))
              /\ \A j \in 0..(Len(data) - 1) :
                    LET B == data[j + 1]
                    IN  (B \in Higher /\ \A e \in Higher : B.key <= e.key) =>
                            /\ r.end = B.key
                            /\ NodeRef_range(data, j).start = r.end
              /\ Higher = {} => \A e \in Entries(data) : r.end <= e.key
    /\ res.op = "range" =>
          /\ res.range.start = NodeRef_key(data, res.index)
          /\ res.range.end = data[((res.index + 1) % Len(data)) + 1].key

C10_Witness ==
    /\ res.op = "range"
    /\ Len(data) = 3
    /\ res.index = 2
    /\ res.range = KeyRange(data[3].key, data[1].key)

----------------------------------------------------------------------------
\* C11: with exactly one node, prev() and next() of its NodeRef are that same
\* node (index 0), its range() has start = end = the node's key, and that
\* range contains every key.
C11_SingleNode ==
    Len(data) = 1 =>
        /\ NodeRef_prev(data, 0) = 0
        /\ NodeRef_next(data, 0) = 0
        /\ NodeRef_range(data, 0) = KeyRange(data[1].key, data[1].key)
        /\ \A k \in Keys : contains(NodeRef_range(data, 0), k)
        /\ res.op \in {"prev", "next_node"} => res.index = 0
        /\ res.op = "range" =>
              /\ res.range.start = res.range.end
              /\ res.range.start = data[1].key
              /\ \A k \in Keys : contains(res.range, k)

C11_Witness ==
    /\ Len(data) = 1
    /\ res.op = "range"
    /\ res.range.start = res.range.end
    /\ res.range.start > 0

\* C12: for every set of nodes and every insertion order, add_node_unchecked
\* for each node followed by one sort() gives the same entry sequence as
\* sequential add_node calls for the same nodes.
RoundTripDone == todo.checked = <<>> /\ todo.unchecked = <<>> /\ todo.sorted

C12_RoundTrip == RoundTripDone => ring2 = data

\* C12 as amended: the same, for every set of nodes whose derived keys are
\* pairwise distinct.
DistinctKeys(o) ==
    \A i, j \in 1..Len(o) :
        key(hash_builder, o[i]) = key(hash_builder, o[j]) => i = j

C12_RoundTripDistinctKeys ==
    (RoundTripDone /\ DistinctKeys(todo.nodes)) => ring2 = data

C12_Witness ==
    /\ RoundTripDone
    /\ DistinctKeys(todo.nodes)
    /\ Len(todo.nodes) = 3
    /\ key(hash_builder, todo.nodes[1]) > key(hash_builder, todo.nodes[2])
    /\ ring2 = data

\* C13: a key is contained in some range yielded by merge_ranges if and only
\* if it is contained in some input range.
Covered(rs, k) == \E i \in 1..Len(rs) : contains(rs[i], k)

C13_MergeCoverage ==
    merged.ended =>
        \A k \in Keys : Covered(merged.out, k) <=> Covered(ranges, k)

C13_Witness ==
    /\ merged.ended
    /\ Len(ranges) = 3
    /\ Len(merged.out) = 2
    /\ \E i \in 1..3 : is_wrapping(ranges[i])
    /\ \E i \in 1..3 : ~is_wrapping(ranges[i])
    /\ \E k \in Keys : ~Covered(ranges, k)

\* C14: the ranges yielded by merge_ranges are ordered by start ascending and
\* pairwise non-overlapping (no two of them share a key).
C14_MergeDeoverlapped ==
    \A i, j \in 1..Len(merged.out) :
        i < j =>
            /\ merged.out[i].start <= merged.out[j].start
            /\ ~is_overlapping(merged.out[i], merged.out[j])
            /\ \A k \in Keys :
                  ~(contains(merged.out[i], k) /\ contains(merged.out[j], k))

\* C15: contains(item) is start <= item < end when start < end, and
\* item >= start or item < end when start >= end; a range with start = end
\* contains every key.
C15_Contains ==
    krcall.op = "contains" =>
        /\ kr.start < kr.end =>
              (krcall.ret <=> (kr.start <= krcall.item /\ krcall.item < kr.end))
        /\ kr.start >= kr.end =>
              (krcall.ret <=> (krcall.item >= kr.start \/ krcall.item < kr.end))
        /\ kr.start = kr.end => krcall.ret

C15_Witness ==
    /\ krcall.op = "contains"
    /\ kr.start > kr.end
    /\ krcall.item < kr.end
    /\ krcall.ret

\* C16: is_overlapping is symmetric, and true if and only if some key is
\* contained in both ranges.
C16_Overlapping ==
    krcall.op = "is_overlapping" =>
        /\ krcall.ret <=> is_overlapping(other, kr)
        /\ krcall.ret <=> \E k \in Keys : contains(kr, k) /\ contains(other, k)

C16_Witness ==
    /\ krcall.op = "is_overlapping"
    /\ krcall.ret
    /\ is_wrapping(kr)
    /\ ~is_wrapping(other)
    /\ ~contains(kr, other.start)

\* C17: for every pair of overlapping ranges a and b, after a.extend(b) the
\* range a contains every key that a contained before and every key that b
\* contains.
ExtendCoversBoth ==
    \A k \in Keys :
        (contains(krcall.before, k) \/ contains(other, k)) => contains(kr, k)

C17_ExtendUnion ==
    (krcall.op = "extend" /\ is_overlapping(krcall.before, other)) =>
        ExtendCoversBoth

\* C17 as amended: the same, for every pair of overlapping ranges a and b
\* other than a non-wrapping a with a wrapping b.
C17_ExtendUnionUnlessWrappingArg ==
    (/\ krcall.op = "extend"
     /\ is_overlapping(krcall.before, other)
     /\ (is_wrapping(krcall.before) \/ ~is_wrapping(other))) =>
        ExtendCoversBoth

C17_Witness ==
    /\ krcall.op = "extend"
    /\ is_overlapping(krcall.before, other)
    /\ is_wrapping(krcall.before)
    /\ krcall.before.start # krcall.before.end
    /\ kr # krcall.before
    /\ ExtendCoversBoth

\* C18: a successful add_node(node) returns the number of entries whose key
\* is less than key(node); afterwards get_by_index of that index is the new
\* node, len() has grown by one, the entries before the index are unchanged
\* and those at or after it are shifted up by one.
C18_AddNodeFrame ==
    (res.op = "add_node" /\ res.err = "") =>
        LET k == key(hash_builder, res.arg)
            i == res.index
        IN  /\ i = Cardinality({j \in 1..Len(prev) : prev[j].key < k})
            /\ get_by_index(data, i) = [err |-> "", index |-> i]
            /\ data[i + 1] = Node(k, res.arg)
            /\ len(data) = len(prev) + 1
            /\ \A j \in 0..(Len(prev) - 1) :
                  IF j < i THEN data[j + 1] = prev[j + 1]
                           ELSE data[j + 2] = prev[j + 1]

C18_Witness ==
    /\ res.op = "add_node"
    /\ res.err = ""
    /\ Len(prev) = 2
    /\ res.index = 1

====
